---- MODULE Spec2Model ----
(***************************************************************************)
(* Diagnostic dialogue orchestrator of veda-bot-rag: the interactive       *)
(* session loop of run_rag.py driving RAGPipeline.run over a               *)
(* ConversationMemory.                                                     *)
(*                                                                         *)
(* Text is abstracted to the features the code tests on it:                *)
(*   risk   - the safety engine matches the input (check_safety)           *)
(*   rf     - the text contains a keyword of _detect_pre_diagnosis_red_flags*)
(*   affirm - the text contains a word of _is_affirmative                  *)
(* Confidences are hundredths (70 is 0.70).                                *)
(***************************************************************************)
EXTENDS Integers, Sequences, FiniteSets, TLC

VARIABLES
    pc,                               \* position of the session loop
    user_input,                       \* run_rag.py: user_input of the current turn
    is_safe,                          \* run_rag.py: result of check_safety
    history,                          \* memory.history
    user_turn_count,                  \* memory.user_turn_count
    diagnosis_complete,               \* memory.diagnosis_complete
    waiting_remedies_consent,         \* memory.waiting_remedies_consent
    waiting_treatment_risk_profile,   \* memory.waiting_treatment_risk_profile
    treatment_risk_profile_collected, \* memory.treatment_risk_profile_collected
    last_diagnosis,                   \* memory.last_diagnosis
    reranked_chunks,                  \* run(): reranked_chunks of the current turn
    final_attempt,                    \* _run_differential_decision: final_attempt
    differential,                     \* _run_differential_decision: differential
    self_check,                       \* _run_differential_decision: self_check
    response,                         \* what the turn answers: generate(..., mode)
    ENABLE_TREATMENT_RISK_GATE,       \* config value read by run()
    stage,                            \* observer: how far the release of remedies got
    turn_start,                       \* observer: the memory as the turn found it
    raw_differential,                 \* observer: shape of the text the differential
                                      \* prompt came back as
    fn_pc,                            \* function harnesses: position
    fn_in,                            \* function harnesses: the arguments
    fn_out                            \* function harnesses: the result

memvars == <<history, user_turn_count, diagnosis_complete, waiting_remedies_consent,
             waiting_treatment_risk_profile, treatment_risk_profile_collected,
             last_diagnosis>>

turnvars == <<user_input, is_safe, reranked_chunks, final_attempt, differential,
              self_check, response>>

sessionvars == <<pc, memvars, turnvars, ENABLE_TREATMENT_RISK_GATE, stage, turn_start,
                 raw_differential>>

fnvars == <<fn_pc, fn_in, fn_out>>

vars == <<sessionvars, fnvars>>

----------------------------------------------------------------------------
\* Bounds of the model.

\* Longest session explored, in user turns.
MaxUserTurns == 21

\* Most turns of one session whose text carries a red-flag keyword.
MaxRedFlagTurns == 1

----------------------------------------------------------------------------
\* Program constants.

MIN_GATHERING_QUESTIONS == 15

EXTRA_GATHERING_QUESTIONS_IF_UNCERTAIN == 5

\* 0.70
DIAGNOSIS_CONFIDENCE_THRESHOLD == 70

\* ConversationMemory(max_turns=50)
max_turns == 50

final_diagnosis_turn == MIN_GATHERING_QUESTIONS + EXTRA_GATHERING_QUESTIONS_IF_UNCERTAIN

----------------------------------------------------------------------------
\* Values.

None == [kind |-> "none"]

\* No turn is in progress.
NoSnapshot == [taken |-> FALSE]

NoInput == [risk |-> FALSE, rf |-> FALSE, affirm |-> FALSE, given |-> FALSE]

\* What the user may type: any combination of the three features.
UserInputs == [risk : BOOLEAN, rf : BOOLEAN, affirm : BOOLEAN, given : {TRUE}]

\* A response: the mode generate() is called in (or the fixed reply), the chunks it is
\* handed and the stage they come from, how the text came about, and whether the
\* text carries a red-flag keyword.
NoResponse ==
    [mode |-> "none", chunks |-> "na", source |-> "na", kind |-> "none", rf |-> FALSE]

Fixed(mode) ==
    [mode |-> mode, chunks |-> "na", source |-> "na", kind |-> "fixed", rf |-> FALSE]

\* generate(..., reranked_chunks, ...): the list _build_reranked_chunks returned.
Pending(mode, chunks) ==
    [mode |-> mode, chunks |-> chunks, source |-> "rerank", kind |-> "pending",
     rf |-> FALSE]

\* generate(remedy_query, remedy_chunks, ...): the list self.retriever.retrieve
\* returned.
PendingRetrieved(mode, chunks) ==
    [mode |-> mode, chunks |-> chunks, source |-> "retriever", kind |-> "pending",
     rf |-> FALSE]

\* Numbers the generation capability may put in most_likely_confidence, in
\* hundredths: below range, in range on both sides of the threshold, above range.
RawConfidences == {-20, 69, 70, 90, 130}

\* Numbers it may put in adjusted_confidence_cap.
RawCaps == {-20, 40, 70, 130}

\* Numbers the generation capability may put in a candidate's confidence.
RawCandidateConfidences == {-20, 50, 130}

\* Most candidates the capability lists.
MaxCandidates == 4

\* Lists of at most n candidates, each reduced to its confidence.
RECURSIVE CandidateLists(_)
CandidateLists(n) ==
    IF n = 0 THEN {<<>>}
    ELSE LET shorter == CandidateLists(n - 1)
         IN  shorter \cup {Append(l, c) : l \in {x \in shorter : Len(x) = n - 1},
                                          c \in RawCandidateConfidences}

\* An object whose fields may be unusable (missing, wrongly typed) or out of range;
\* its candidate list is one of conds.
RawObjects(conds) ==
    {r \in [shape : {"object"}, conds_is_list : BOOLEAN, conds : conds,
             conf_usable : BOOLEAN, conf : RawConfidences \cup {0},
             unc : {"low", "moderate", "high", "other"},
             flags_is_list : BOOLEAN, flags : {{}, {"generator_flag"}}] :
        /\ r.conf_usable <=> r.conf \in RawConfidences
        /\ ~r.flags_is_list => r.flags = {}
        /\ ~r.conds_is_list => r.conds = <<>>}

\* Text that is no JSON (shape "unparseable"), or JSON that is no object (a list, a
\* number, a string, null: shape "non_object").
RawNonObjects(shapes) ==
    [shape : shapes, conds_is_list : {FALSE}, conds : {<<>>}, conf_usable : {FALSE},
     conf : {0}, unc : {"other"}, flags_is_list : {FALSE}, flags : {{}}]

\* What the differential prompt comes back as within a session: the turn reads the
\* headline fields only, so one candidate list stands for all.
RawDifferentials ==
    RawNonObjects({"unparseable"})
    \cup RawObjects({<<50, 50, 50>>})

\* What the differential prompt may come back as.
RawReports ==
    RawNonObjects({"unparseable", "non_object"}) \cup RawObjects(CandidateLists(MaxCandidates))

\* What the self-check prompt may come back as.
RawSelfChecks ==
    [parsed : {FALSE}, overconfident : {FALSE}, missing_differentials : {FALSE},
     requires_medical_escalation : {FALSE}, treatment_allowed : {FALSE},
     cap_usable : {FALSE}, cap : {0}]
    \cup
    {r \in [parsed : {TRUE}, overconfident : BOOLEAN, missing_differentials : BOOLEAN,
             requires_medical_escalation : BOOLEAN, treatment_allowed : BOOLEAN,
             cap_usable : BOOLEAN, cap : RawCaps \cup {0}] :
        r.cap_usable <=> r.cap \in RawCaps}

Min(a, b) == IF a <= b THEN a ELSE b

Max(a, b) == IF a >= b THEN a ELSE b

----------------------------------------------------------------------------
\* ConversationMemory.

\* Mutant: the newest turn is dropped when the window is exceeded.
append_turn_drop_newest(h, turn, window) ==
    LET appended == Append(h, turn)
    IN  IF Len(appended) > window THEN SubSeq(appended, 1, Len(appended) - 1)
        ELSE appended

\* self.history.append(...), then pop(0) when the window is exceeded.
append_turn(h, turn, window) ==
    LET appended == Append(h, turn)
    IN  IF Len(appended) > window THEN Tail(appended) ELSE appended

\* history after add_turn(role, content) in a session, whose memory is built with
\* the default window.
add_turn(h, role, rf) == append_turn(h, [role |-> role, rf |-> rf], max_turns)

\* Number of turns of the history whose text carries a red-flag keyword.
RedFlagTurns(h) == Cardinality({i \in 1..Len(h) : h[i].rf})

----------------------------------------------------------------------------
\* Generator.

\* Mutant: the substitute report is a confident one.
fallback_differential_confident ==
    [kind |-> "report", possible_conditions |-> <<90, 5, 5>>,
     most_likely_confidence |-> 90, uncertainty_level |-> "low",
     red_flags_present |-> {}]

\* The fixed neutral report substituted for unparseable output: three candidates
\* at 0.34, 0.33 and 0.33.
fallback_differential ==
    [kind |-> "report", possible_conditions |-> <<34, 33, 33>>,
     most_likely_confidence |-> 34, uncertainty_level |-> "high",
     red_flags_present |-> {}]

\* The first n elements of a sequence: s[:n]
Prefix(s, n) == SubSeq(s, 1, Min(n, Len(s)))

\* _safe_json_load, then the normalisation of the fields: the candidate list is
\* replaced when it is no list and padded from the fallback when it is short, and
\* its entries are kept as they came. A JSON value that is no object cannot be
\* indexed by field name: the call raises.
generate_differential_diagnosis(raw) ==
    IF raw.shape = "unparseable" THEN fallback_differential
    ELSE IF raw.shape = "non_object" THEN [kind |-> "raised"]
    ELSE LET conds == IF raw.conds_is_list THEN raw.conds
                      ELSE fallback_differential.possible_conditions
         IN  [kind |-> "report",
              possible_conditions |->
                  IF Len(conds) < 3
                  THEN Prefix(conds \o fallback_differential.possible_conditions, 3)
                  ELSE conds,
              most_likely_confidence |->
                  Max(0, Min(100, IF raw.conf_usable THEN raw.conf ELSE 0)),
              uncertainty_level |->
                  IF raw.unc \in {"low", "moderate", "high"} THEN raw.unc
                  ELSE "moderate",
              red_flags_present |-> IF raw.flags_is_list THEN raw.flags ELSE {}]

fallback_self_check ==
    [overconfident |-> FALSE, missing_differentials |-> FALSE,
     requires_medical_escalation |-> FALSE, treatment_allowed |-> TRUE,
     adjusted_confidence_cap |-> 100]

self_check_differential(raw) ==
    IF ~raw.parsed THEN fallback_self_check
    ELSE [overconfident |-> raw.overconfident,
          missing_differentials |-> raw.missing_differentials,
          requires_medical_escalation |-> raw.requires_medical_escalation,
          treatment_allowed |-> raw.treatment_allowed,
          adjusted_confidence_cap |->
              Max(0, Min(100, IF raw.cap_usable THEN raw.cap ELSE 100))]

\* The snapshot stored in memory.last_diagnosis: the report's headline fields.
format_differential_report(d) ==
    [kind |-> "report", confidence |-> d.most_likely_confidence,
     uncertainty |-> d.uncertainty_level]

----------------------------------------------------------------------------
\* RAGPipeline helpers.

\* Mutant: the lexicon test matches every text.
_is_affirmative_any(text) == TRUE

_is_affirmative(text) == text.affirm

\* Mutant: only the current (last) turn is scanned.
_detect_pre_diagnosis_red_flags_last_turn(h) ==
    IF Len(h) > 0 /\ h[Len(h)].rf THEN {"red_flag_keyword"} ELSE {}

\* Scan of the formatted history (all retained turns, the current user turn
\* included) for the keyword groups.
_detect_pre_diagnosis_red_flags(h) ==
    IF \E i \in 1..Len(h) : h[i].rf THEN {"red_flag_keyword"} ELSE {}

\* Mutant: the cap is not applied.
ComposeConfidenceUncapped(d, sc) == d.most_likely_confidence

\* min(generated confidence, adjusted_confidence_cap)
ComposeConfidence(d, sc) ==
    Min(d.most_likely_confidence, sc.adjusted_confidence_cap)

\* The report after the cap and the auditor's escalation marker are applied.
ComposeDifferential(d, sc) ==
    [d EXCEPT !.most_likely_confidence = ComposeConfidence(d, sc),
              !.red_flags_present =
                  IF sc.requires_medical_escalation
                  THEN d.red_flags_present \cup {"auditor_escalation"}
                  ELSE d.red_flags_present]

\* Mutant: the uncertain branch is tested before the escalation branch.
DifferentialOutcomeUncertainFirst(d, sc, final) ==
    IF d.most_likely_confidence < DIAGNOSIS_CONFIDENCE_THRESHOLD
       \/ d.uncertainty_level = "high" \/ sc.overconfident \/ sc.missing_differentials
    THEN (IF final THEN "uncertain_final" ELSE "uncertain")
    ELSE IF d.red_flags_present # {} \/ sc.requires_medical_escalation THEN "escalation"
    ELSE "diagnosis"

\* Mutant: a confidence equal to the threshold counts as low.
DifferentialOutcomeStrictThreshold(d, sc, final) ==
    IF d.red_flags_present # {} \/ sc.requires_medical_escalation THEN "escalation"
    ELSE IF d.most_likely_confidence <= DIAGNOSIS_CONFIDENCE_THRESHOLD
            \/ d.uncertainty_level = "high" \/ sc.overconfident
            \/ sc.missing_differentials
         THEN (IF final THEN "uncertain_final" ELSE "uncertain")
    ELSE "diagnosis"

\* Mutant: final_attempt is ignored, an uncertain report never ends the session.
DifferentialOutcomeNeverFinal(d, sc, final) ==
    IF d.red_flags_present # {} \/ sc.requires_medical_escalation THEN "escalation"
    ELSE IF d.most_likely_confidence < DIAGNOSIS_CONFIDENCE_THRESHOLD
            \/ d.uncertainty_level = "high" \/ sc.overconfident
            \/ sc.missing_differentials
         THEN "uncertain"
    ELSE "diagnosis"

\* Branch of _run_differential_decision once the report is composed.
DifferentialOutcome(d, sc, final) ==
    LET low_confidence == d.most_likely_confidence < DIAGNOSIS_CONFIDENCE_THRESHOLD
        high_uncertainty == d.uncertainty_level = "high"
        escalation_required ==
            d.red_flags_present # {} \/ sc.requires_medical_escalation
    IN  IF escalation_required THEN "escalation"
        ELSE IF low_confidence \/ high_uncertainty \/ sc.overconfident
                \/ sc.missing_differentials
             THEN (IF final THEN "uncertain_final" ELSE "uncertain")
        ELSE "diagnosis"

\* Mutant: the first differential runs one turn late (n <= min is still gathering).
RouteOffByOne(chunks, wtrp, wrc, complete, n) ==
    IF chunks = "empty" THEN "no_info"
    ELSE IF wtrp THEN "risk_profile"
    ELSE IF wrc THEN "consent"
    ELSE IF complete THEN "final"
    ELSE IF n <= MIN_GATHERING_QUESTIONS THEN "gathering"
    ELSE IF n = MIN_GATHERING_QUESTIONS + 1 THEN "differential_first"
    ELSE IF MIN_GATHERING_QUESTIONS < n /\ n < final_diagnosis_turn THEN "gathering"
    ELSE "differential_final"

\* Mutant: the pending risk-profile answer is tested after the turn-count rules.
RouteCountFirst(chunks, wtrp, wrc, complete, n) ==
    IF chunks = "empty" THEN "no_info"
    ELSE IF wrc THEN "consent"
    ELSE IF complete THEN "final"
    ELSE IF n < MIN_GATHERING_QUESTIONS THEN "gathering"
    ELSE IF n = MIN_GATHERING_QUESTIONS THEN "differential_first"
    ELSE IF MIN_GATHERING_QUESTIONS < n /\ n < final_diagnosis_turn THEN "gathering"
    ELSE IF wtrp THEN "risk_profile"
    ELSE "differential_final"

\* Mutant: the pending answers are tested before the empty retrieval.
RouteWaitingFirst(chunks, wtrp, wrc, complete, n) ==
    IF wtrp THEN "risk_profile"
    ELSE IF wrc THEN "consent"
    ELSE IF chunks = "empty" THEN "no_info"
    ELSE IF complete THEN "final"
    ELSE IF n < MIN_GATHERING_QUESTIONS THEN "gathering"
    ELSE IF n = MIN_GATHERING_QUESTIONS THEN "differential_first"
    ELSE IF MIN_GATHERING_QUESTIONS < n /\ n < final_diagnosis_turn THEN "gathering"
    ELSE "differential_final"

\* Mutant: the differential turns are tested before the pending answers.
RouteDifferentialFirst(chunks, wtrp, wrc, complete, n) ==
    IF chunks = "empty" THEN "no_info"
    ELSE IF n = MIN_GATHERING_QUESTIONS /\ ~complete THEN "differential_first"
    ELSE IF n >= final_diagnosis_turn /\ ~complete THEN "differential_final"
    ELSE IF wtrp THEN "risk_profile"
    ELSE IF wrc THEN "consent"
    ELSE IF complete THEN "final"
    ELSE "gathering"

\* The branch run() takes, in the order of its tests.
Route(chunks, wtrp, wrc, complete, n) ==
    IF chunks = "empty" THEN "no_info"
    ELSE IF wtrp THEN "risk_profile"
    ELSE IF wrc THEN "consent"
    ELSE IF complete THEN "final"
    ELSE IF n < MIN_GATHERING_QUESTIONS THEN "gathering"
    ELSE IF n = MIN_GATHERING_QUESTIONS THEN "differential_first"
    ELSE IF MIN_GATHERING_QUESTIONS < n /\ n < final_diagnosis_turn THEN "gathering"
    ELSE "differential_final"

\* Mutant: the 'not' is dropped.
RiskGateAppliesDroppedNot(gate, collected) == gate /\ collected

\* getattr(config, "ENABLE_TREATMENT_RISK_GATE", True)
\*     and not memory.treatment_risk_profile_collected
RiskGateApplies(gate, collected) == gate /\ ~collected

CurrentRoute ==
    Route(reranked_chunks, waiting_treatment_risk_profile, waiting_remedies_consent,
          diagnosis_complete, user_turn_count)

----------------------------------------------------------------------------
\* The session after construction of the pipeline and the memory.
SessionInit ==
    /\ pc = "idle"
    /\ user_input = NoInput
    /\ is_safe = TRUE
    /\ history = <<>>
    /\ user_turn_count = 0
    /\ diagnosis_complete = FALSE
    /\ waiting_remedies_consent = FALSE
    /\ waiting_treatment_risk_profile = FALSE
    /\ treatment_risk_profile_collected = FALSE
    /\ last_diagnosis = None
    /\ reranked_chunks = "none"
    /\ final_attempt = "unset"
    /\ differential = None
    /\ self_check = None
    /\ response = NoResponse
    /\ ENABLE_TREATMENT_RISK_GATE \in BOOLEAN
    /\ stage = "none"
    /\ turn_start = NoSnapshot
    /\ raw_differential = "unset"

Init ==
    /\ SessionInit
    /\ fn_pc = "unused"
    /\ fn_in = <<>>
    /\ fn_out = <<>>

----------------------------------------------------------------------------
\* The session loop, up to the call of run().

\* input() and check_safety(user_input): nothing of the memory is touched.
ReadInput ==
    /\ turn_start' = [taken |-> TRUE,
                      history |-> history,
                      user_turn_count |-> user_turn_count,
                      diagnosis_complete |-> diagnosis_complete,
                      waiting_remedies_consent |-> waiting_remedies_consent,
                      waiting_treatment_risk_profile |-> waiting_treatment_risk_profile,
                      treatment_risk_profile_collected |->
                          treatment_risk_profile_collected,
                      last_diagnosis |-> last_diagnosis]
    /\ UNCHANGED <<raw_differential, fnvars>>
    /\ pc = "idle"
    /\ user_turn_count < MaxUserTurns
    /\ \E inp \in UserInputs :
          /\ inp.rf => RedFlagTurns(history) < MaxRedFlagTurns
          /\ user_input' = inp
          /\ is_safe' = ~inp.risk
    /\ response' = NoResponse
    /\ pc' = "checked"
    /\ UNCHANGED <<memvars, reranked_chunks, final_attempt, differential, self_check,
                   ENABLE_TREATMENT_RISK_GATE, stage>>

\* The user types 'exit'.
Exit ==
    /\ UNCHANGED <<turn_start, raw_differential, fnvars>>
    /\ pc = "idle"
    /\ pc' = "done"
    /\ UNCHANGED <<memvars, turnvars, ENABLE_TREATMENT_RISK_GATE, stage>>

\* The safety engine's embedding call raises: nothing catches it.
SafetyRaises ==
    /\ UNCHANGED <<turn_start, raw_differential, fnvars>>
    /\ pc = "idle"
    /\ pc' = "crashed"
    /\ UNCHANGED <<memvars, turnvars, ENABLE_TREATMENT_RISK_GATE, stage>>

\* Mutant: the user turn is added to the memory before the alert is raised.
SafetyAlertAfterAddTurn ==
    /\ turn_start' = NoSnapshot
    /\ raw_differential' = "unset"
    /\ UNCHANGED fnvars
    /\ pc = "checked"
    /\ ~is_safe
    /\ user_turn_count' = user_turn_count + 1
    /\ history' = add_turn(history, "user", user_input.rf)
    /\ response' = Fixed("alert")
    /\ user_input' = NoInput
    /\ is_safe' = TRUE
    /\ pc' = "idle"
    /\ UNCHANGED <<diagnosis_complete, waiting_remedies_consent,
                   waiting_treatment_risk_profile, treatment_risk_profile_collected,
                   last_diagnosis, reranked_chunks, final_attempt, differential,
                   self_check, ENABLE_TREATMENT_RISK_GATE, stage>>

\* if not is_safe: print the alert, log it, continue.
SafetyAlert ==
    /\ turn_start' = NoSnapshot
    /\ raw_differential' = "unset"
    /\ UNCHANGED fnvars
    /\ pc = "checked"
    /\ ~is_safe
    /\ response' = Fixed("alert")
    /\ user_input' = NoInput
    /\ is_safe' = TRUE
    /\ pc' = "idle"
    /\ UNCHANGED <<memvars, reranked_chunks, final_attempt, differential, self_check,
                   ENABLE_TREATMENT_RISK_GATE, stage>>

\* memory.add_turn("user", user_input)
AddUserTurn ==
    /\ UNCHANGED <<turn_start, raw_differential, fnvars>>
    /\ pc = "checked"
    /\ is_safe
    /\ user_turn_count' = user_turn_count + 1
    /\ history' = add_turn(history, "user", user_input.rf)
    /\ pc' = "run"
    /\ UNCHANGED <<diagnosis_complete, waiting_remedies_consent,
                   waiting_treatment_risk_profile, treatment_risk_profile_collected,
                   last_diagnosis, turnvars, ENABLE_TREATMENT_RISK_GATE, stage>>

----------------------------------------------------------------------------
\* RAGPipeline.run.

\* Query construction, retrieval and rerank.
BuildRerankedChunks ==
    /\ UNCHANGED <<turn_start, raw_differential, fnvars>>
    /\ pc = "run"
    /\ reranked_chunks' \in {"empty", "nonempty"}
    /\ pc' = "route"
    /\ UNCHANGED <<memvars, user_input, is_safe, final_attempt, differential, self_check,
                   response, ENABLE_TREATMENT_RISK_GATE, stage>>

\* rewrite_query, the retriever or the reranker raises.
RetrievalRaises ==
    /\ UNCHANGED <<turn_start, raw_differential, fnvars>>
    /\ pc = "run"
    /\ pc' = "crashed"
    /\ UNCHANGED <<memvars, turnvars, ENABLE_TREATMENT_RISK_GATE, stage>>

\* if not reranked_chunks: return ["No relevant information found."]
NoRelevantInformation ==
    /\ UNCHANGED <<turn_start, raw_differential, fnvars>>
    /\ pc = "route"
    /\ CurrentRoute = "no_info"
    /\ response' = Fixed("no_info")
    /\ pc' = "reply"
    /\ UNCHANGED <<memvars, user_input, is_safe, reranked_chunks, final_attempt,
                   differential, self_check, ENABLE_TREATMENT_RISK_GATE, stage>>

\* if memory.waiting_treatment_risk_profile: ...
RiskProfileAnswer ==
    /\ UNCHANGED <<turn_start, raw_differential, fnvars>>
    /\ pc = "route"
    /\ CurrentRoute = "risk_profile"
    /\ waiting_treatment_risk_profile' = FALSE
    /\ treatment_risk_profile_collected' = TRUE
    /\ diagnosis_complete' = TRUE
    /\ \E remedy_chunks \in {"empty", "nonempty"} :
          response' = PendingRetrieved("remedies", remedy_chunks)
    /\ stage' = IF stage = "consented" THEN "profiled" ELSE "out_of_order"
    /\ pc' = "reply"
    /\ UNCHANGED <<history, user_turn_count, waiting_remedies_consent, last_diagnosis,
                   user_input, is_safe, reranked_chunks, final_attempt, differential,
                   self_check, ENABLE_TREATMENT_RISK_GATE>>

\* if memory.waiting_remedies_consent: ...
RemediesConsent ==
    /\ UNCHANGED <<turn_start, raw_differential, fnvars>>
    /\ pc = "route"
    /\ CurrentRoute = "consent"
    /\ waiting_remedies_consent' = FALSE
    /\ IF _is_affirmative(user_input)
       THEN IF RiskGateApplies(ENABLE_TREATMENT_RISK_GATE,
                               treatment_risk_profile_collected)
            THEN /\ waiting_treatment_risk_profile' = TRUE
                 /\ response' = Pending("risk_gate_question", reranked_chunks)
                 /\ UNCHANGED diagnosis_complete
            ELSE /\ diagnosis_complete' = TRUE
                 /\ \E remedy_chunks \in {"empty", "nonempty"} :
                       response' = PendingRetrieved("remedies", remedy_chunks)
                 /\ UNCHANGED waiting_treatment_risk_profile
       ELSE /\ diagnosis_complete' = TRUE
            /\ response' = Fixed("farewell")
            /\ UNCHANGED waiting_treatment_risk_profile
    /\ stage' = IF ~_is_affirmative(user_input) THEN "declined"
                ELSE IF stage = "diagnosed" THEN "consented" ELSE "out_of_order"
    /\ pc' = "reply"
    /\ UNCHANGED <<history, user_turn_count, treatment_risk_profile_collected,
                   last_diagnosis, user_input, is_safe, reranked_chunks, final_attempt,
                   differential, self_check, ENABLE_TREATMENT_RISK_GATE>>

\* generate(question, reranked_chunks, history, mode="final" | "gathering")
PlainReply ==
    /\ UNCHANGED <<turn_start, raw_differential, fnvars>>
    /\ pc = "route"
    /\ CurrentRoute \in {"final", "gathering"}
    /\ response' = Pending(CurrentRoute, reranked_chunks)
    /\ pc' = "reply"
    /\ UNCHANGED <<memvars, user_input, is_safe, reranked_chunks, final_attempt,
                   differential, self_check, ENABLE_TREATMENT_RISK_GATE, stage>>

----------------------------------------------------------------------------
\* RAGPipeline._run_differential_decision.

\* return self._run_differential_decision(..., final_attempt=False | True)
EnterDifferentialDecision ==
    /\ UNCHANGED <<turn_start, raw_differential, fnvars>>
    /\ pc = "route"
    /\ CurrentRoute \in {"differential_first", "differential_final"}
    /\ final_attempt' = IF CurrentRoute = "differential_final" THEN "true" ELSE "false"
    /\ pc' = "differential"
    /\ UNCHANGED <<memvars, user_input, is_safe, reranked_chunks, differential,
                   self_check, response, ENABLE_TREATMENT_RISK_GATE, stage>>

\* red_flags = self._detect_pre_diagnosis_red_flags(history); if red_flags: ...
PreDiagnosisEscalation ==
    /\ UNCHANGED <<turn_start, raw_differential, fnvars>>
    /\ pc = "differential"
    /\ _detect_pre_diagnosis_red_flags(history) # {}
    /\ last_diagnosis' = [kind |-> "red_flags"]
    /\ response' = Pending("escalation", reranked_chunks)
    /\ stage' = "none"
    /\ pc' = "reply"
    /\ UNCHANGED <<history, user_turn_count, diagnosis_complete, waiting_remedies_consent,
                   waiting_treatment_risk_profile, treatment_risk_profile_collected,
                   user_input, is_safe, reranked_chunks, final_attempt, differential,
                   self_check, ENABLE_TREATMENT_RISK_GATE>>

\* differential = self.generator.generate_differential_diagnosis(...)
GenerateDifferential ==
    /\ UNCHANGED <<turn_start, fnvars>>
    /\ pc = "differential"
    /\ _detect_pre_diagnosis_red_flags(history) = {}
    /\ \E raw \in RawDifferentials :
          /\ raw_differential' = raw.shape
          /\ differential' = generate_differential_diagnosis(raw)
    /\ pc' = "selfcheck"
    /\ UNCHANGED <<memvars, user_input, is_safe, reranked_chunks, final_attempt,
                   self_check, response, ENABLE_TREATMENT_RISK_GATE, stage>>

\* The generation capability raises inside generate_differential_diagnosis or
\* self_check_differential: neither catches it.
DifferentialRaises ==
    /\ UNCHANGED <<turn_start, raw_differential, fnvars>>
    /\ \/ pc = "selfcheck"
       \/ /\ pc = "differential"
          /\ _detect_pre_diagnosis_red_flags(history) = {}
    /\ pc' = "crashed"
    /\ UNCHANGED <<memvars, turnvars, ENABLE_TREATMENT_RISK_GATE, stage>>

\* self_check, the cap, the auditor's marker, the snapshot and the branch.
SelfCheckAndDecide ==
    /\ UNCHANGED <<turn_start, raw_differential, fnvars>>
    /\ pc = "selfcheck"
    /\ \E raw \in RawSelfChecks :
          LET sc == self_check_differential(raw)
              d == ComposeDifferential(differential, sc)
              outcome == DifferentialOutcome(d, sc, final_attempt = "true")
          IN  /\ self_check' = sc
              /\ differential' = d
              /\ last_diagnosis' = format_differential_report(d)
              /\ diagnosis_complete' =
                    IF outcome = "uncertain_final" THEN TRUE ELSE diagnosis_complete
              /\ waiting_remedies_consent' =
                    IF outcome = "diagnosis" THEN TRUE ELSE waiting_remedies_consent
              /\ response' = Pending(outcome, reranked_chunks)
              /\ stage' = IF outcome = "diagnosis" THEN "diagnosed" ELSE "none"
    /\ pc' = "reply"
    /\ UNCHANGED <<history, user_turn_count, waiting_treatment_risk_profile,
                   treatment_risk_profile_collected, user_input, is_safe,
                   reranked_chunks, final_attempt, ENABLE_TREATMENT_RISK_GATE>>

----------------------------------------------------------------------------
\* The session loop, from the iteration over run()'s result.

\* for chunk in pipeline.run(...): the fixed reply, or Generator.generate: nothing
\* for no chunks, the text, or the error message of a caught exception.
Streamed(r) ==
    IF r.kind = "fixed" THEN {r}
    ELSE IF r.chunks = "empty" THEN {[r EXCEPT !.kind = "no_information"]}
    ELSE {[r EXCEPT !.kind = "error"]}
         \cup {[r EXCEPT !.kind = "generated", !.rf = rf] : rf \in BOOLEAN}

\* The response is consumed, then memory.add_turn("assistant", full_response);
\* break when the diagnosis is complete.
AddAssistantTurn ==
    /\ turn_start' = NoSnapshot
    /\ raw_differential' = "unset"
    /\ UNCHANGED fnvars
    /\ pc = "reply"
    /\ \E full_response \in Streamed(response) :
          /\ full_response.rf => RedFlagTurns(history) < MaxRedFlagTurns
          /\ response' = full_response
          /\ history' = add_turn(history, "assistant", full_response.rf)
    /\ user_input' = NoInput
    /\ is_safe' = TRUE
    /\ reranked_chunks' = "none"
    /\ final_attempt' = "unset"
    /\ differential' = None
    /\ self_check' = None
    /\ pc' = IF diagnosis_complete THEN "done" ELSE "idle"
    /\ UNCHANGED <<user_turn_count, diagnosis_complete, waiting_remedies_consent,
                   waiting_treatment_risk_profile, treatment_risk_profile_collected,
                   last_diagnosis, ENABLE_TREATMENT_RISK_GATE, stage>>

\* The turn is abandoned while the response is being generated (an interrupt, or
\* the remedy retrieval raising): the loop is left with the memory as run() set
\* it, and the locals of the turn are gone.
GenerationAbandoned ==
    /\ UNCHANGED <<turn_start, fnvars>>
    /\ pc = "reply"
    /\ response.kind = "pending"
    /\ user_input' = NoInput
    /\ is_safe' = TRUE
    /\ reranked_chunks' = "none"
    /\ final_attempt' = "unset"
    /\ differential' = None
    /\ self_check' = None
    /\ response' = NoResponse
    /\ raw_differential' = "unset"
    /\ pc' = "abandoned"
    /\ UNCHANGED <<memvars, ENABLE_TREATMENT_RISK_GATE, stage>>

Next ==
    \/ ReadInput
    \/ Exit
    \/ SafetyRaises
    \/ SafetyAlert
    \/ AddUserTurn
    \/ BuildRerankedChunks
    \/ RetrievalRaises
    \/ NoRelevantInformation
    \/ RiskProfileAnswer
    \/ RemediesConsent
    \/ PlainReply
    \/ EnterDifferentialDecision
    \/ PreDiagnosisEscalation
    \/ GenerateDifferential
    \/ DifferentialRaises
    \/ SelfCheckAndDecide
    \/ GenerationAbandoned
    \/ AddAssistantTurn

Spec == Init /\ [][Next]_vars

----------------------------------------------------------------------------
\* The session of a user who keeps sending turns that pass the safety gate, with a
\* retrieval that always finds chunks and capabilities that do not raise. The turn
\* counter is capped: run() tests it against the two thresholds only, so every
\* count from MaxUserTurns on takes the same branch.

\* input() returns a text the safety engine lets through.
ReadSafeInput ==
    /\ pc = "idle"
    /\ \E inp \in UserInputs :
          /\ ~inp.risk
          /\ inp.rf => RedFlagTurns(history) < MaxRedFlagTurns
          /\ user_input' = inp
          /\ is_safe' = TRUE
    /\ response' = NoResponse
    /\ turn_start' = NoSnapshot
    /\ pc' = "checked"
    /\ UNCHANGED <<memvars, reranked_chunks, final_attempt, differential, self_check,
                   ENABLE_TREATMENT_RISK_GATE, stage, raw_differential, fnvars>>

\* memory.add_turn("user", user_input), the counter capped.
AddUserTurnCapped ==
    /\ pc = "checked"
    /\ is_safe
    /\ user_turn_count' = Min(user_turn_count + 1, MaxUserTurns)
    /\ history' = add_turn(history, "user", user_input.rf)
    /\ pc' = "run"
    /\ UNCHANGED <<diagnosis_complete, waiting_remedies_consent,
                   waiting_treatment_risk_profile, treatment_risk_profile_collected,
                   last_diagnosis, turnvars, ENABLE_TREATMENT_RISK_GATE, stage,
                   turn_start, raw_differential, fnvars>>

\* The retrieval finds chunks.
BuildNonEmptyChunks == BuildRerankedChunks /\ reranked_chunks' = "nonempty"

\* The text is generated.
AddGeneratedTurn == AddAssistantTurn /\ response'.kind \in {"generated", "fixed"}

LiveNext ==
    \/ ReadSafeInput
    \/ AddUserTurnCapped
    \/ BuildNonEmptyChunks
    \/ RiskProfileAnswer
    \/ RemediesConsent
    \/ PlainReply
    \/ EnterDifferentialDecision
    \/ PreDiagnosisEscalation
    \/ GenerateDifferential
    \/ SelfCheckAndDecide
    \/ AddGeneratedTurn

\* Every step of the loop is taken when it can be: the user keeps typing and the
\* calls return.
LiveSpec == Init /\ [][LiveNext]_vars /\ WF_vars(LiveNext)

----------------------------------------------------------------------------
\* Generator.generate_differential_diagnosis on every output of the capability.

\* Session variables of a function harness: the session is not started.
FunctionInit ==
    /\ SessionInit
    /\ ENABLE_TREATMENT_RISK_GATE

DifferentialInit ==
    /\ FunctionInit
    /\ fn_pc = "call"
    /\ fn_in \in RawReports
    /\ fn_out = <<>>

\* report = generate_differential_diagnosis(...)
DifferentialCall ==
    /\ fn_pc = "call"
    /\ fn_out' = generate_differential_diagnosis(fn_in)
    /\ fn_pc' = "returned"
    /\ UNCHANGED <<sessionvars, fn_in>>

DifferentialSpec == DifferentialInit /\ [][DifferentialCall]_vars

----------------------------------------------------------------------------
\* HybridFusionRetriever.retrieve on the two ranked lists it fuses.

\* Chunks of the corpus, named by their metadata index.
MaxDocs == 3

\* Longest ranked list either retriever hands to the fusion.
MaxRanked == 3

Docs == 1..MaxDocs

\* A dense result that carries no metadata_index.
NoIndex == 0

\* getattr(config, "HYBRID_RRF_K", 60)
rrf_k == 60

\* getattr(config, "HYBRID_DENSE_WEIGHT", 1.0)
dense_weight == 1

\* getattr(config, "HYBRID_BM25_WEIGHT", 1.0)
bm25_weight == 1

\* Sequences of at most n elements of S.
SeqsUpTo(S, n) == UNION {[1..m -> S] : m \in 0..n}

IsInjective(s) == \A i, j \in 1..Len(s) : s[i] = s[j] => i = j

Range(s) == {s[i] : i \in 1..Len(s)}

\* The dense retriever's results (an index may repeat or be missing), the lexical
\* retriever's ranking (keys of a dict: no index repeats), and k.
FusionInputs ==
    [dense : SeqsUpTo(Docs \cup {NoIndex}, MaxRanked),
     bm25 : {r \in SeqsUpTo(Docs, MaxRanked) : IsInjective(r)},
     k : 1..MaxRanked]

\* Mutant: a later occurrence of an index overwrites its rank.
dense_rank_last(dense, doc) ==
    IF doc \in Range(dense)
    THEN CHOOSE i \in 1..Len(dense) :
            dense[i] = doc /\ \A j \in 1..Len(dense) : dense[j] = doc => j <= i
    ELSE 0

\* dense_rank[idx]: the 1-based position of the first result with that index;
\* 0 stands for an index that is not in the map.
dense_rank(dense, doc) ==
    IF doc \in Range(dense)
    THEN CHOOSE i \in 1..Len(dense) :
            dense[i] = doc /\ \A j \in 1..Len(dense) : dense[j] = doc => i <= j
    ELSE 0

\* bm25_rank[doc_id]
bm25_rank(bm25, doc) ==
    IF doc \in Range(bm25) THEN CHOOSE i \in 1..Len(bm25) : bm25[i] = doc ELSE 0

\* The fused score as an exact fraction <<numerator, denominator>>: each list the
\* chunk is ranked in adds weight / (rrf_k + rank).
fusion_score(in, doc) ==
    LET dr == dense_rank(in.dense, doc)
        br == bm25_rank(in.bm25, doc)
        d == IF dr = 0 THEN <<0, 1>> ELSE <<dense_weight, rrf_k + dr>>
        b == IF br = 0 THEN <<0, 1>> ELSE <<bm25_weight, rrf_k + br>>
    IN  <<d[1] * b[2] + b[1] * d[2], d[2] * b[2]>>

\* a >= b for fractions with positive denominators.
ScoreGeq(a, b) == a[1] * b[2] >= b[1] * a[2]

\* set(dense_rank.keys()) | set(bm25_rank.keys())
candidate_ids(in) == (Range(in.dense) \ {NoIndex}) \cup Range(in.bm25)

\* fused.sort(key=score, reverse=True) over a list built by iterating a set: every
\* order of the candidates that is non-increasing in the score.
FusedOrders(in) ==
    {f \in [1..Cardinality(candidate_ids(in)) -> candidate_ids(in)] :
        /\ IsInjective(f)
        /\ \A i \in 1..(Len(f) - 1) :
              ScoreGeq(fusion_score(in, f[i]), fusion_score(in, f[i + 1]))}

\* The items built from fused[:k]: metadata_index and fusion_score.
FusedResults(in) ==
    {[i \in 1..Min(in.k, Len(f)) |->
          [metadata_index |-> f[i], fusion_score |-> fusion_score(in, f[i])]] :
        f \in FusedOrders(in)}

FusionInit ==
    /\ FunctionInit
    /\ fn_pc = "call"
    /\ fn_in \in FusionInputs
    /\ fn_out = <<>>

\* results = retriever.retrieve(query, k)
FusionRetrieve ==
    /\ fn_pc = "call"
    /\ fn_out' \in FusedResults(fn_in)
    /\ fn_pc' = "returned"
    /\ UNCHANGED <<sessionvars, fn_in>>

FusionSpec == FusionInit /\ [][FusionRetrieve]_vars

----------------------------------------------------------------------------
\* RAGPipeline._build_reranked_chunks on the list the retriever returns.

\* config.K_RERANK
K_RERANK == 8

\* Longest retrieved list explored (config.K_RETRIEVAL allows 20).
MaxRetrieved == 10

\* Scores the cross-encoder may give.
RerankScores == {1, 2}

\* The scores of the retrieved chunks, in retrieval (fusion) order.
RerankInputs == SeqsUpTo(RerankScores, MaxRetrieved)

\* chunk["rerank_score"] = scores[i]; position is the chunk's place in the
\* retrieved list.
Scored(scores) ==
    [i \in 1..Len(scores) |-> [position |-> i, rerank_score |-> scores[i]]]

\* Mutant: a chunk is placed before the chunks of equal score.
RECURSIVE sorted_reverse_unstable(_)
sorted_reverse_unstable(chunks) ==
    IF chunks = <<>> THEN <<>>
    ELSE LET rest == sorted_reverse_unstable(SubSeq(chunks, 1, Len(chunks) - 1))
             x == chunks[Len(chunks)]
             before == Cardinality({i \in 1..Len(rest) :
                                       rest[i].rerank_score > x.rerank_score})
         IN  SubSeq(rest, 1, before) \o <<x>> \o SubSeq(rest, before + 1, Len(rest))

\* sorted(chunks, key=lambda x: x["rerank_score"], reverse=True): a stable sort,
\* computed by insertion: each chunk goes behind the chunks of greater or equal
\* score that precede it.
RECURSIVE sorted_reverse(_)
sorted_reverse(chunks) ==
    IF chunks = <<>> THEN <<>>
    ELSE LET rest == sorted_reverse(SubSeq(chunks, 1, Len(chunks) - 1))
             x == chunks[Len(chunks)]
             before == Cardinality({i \in 1..Len(rest) :
                                       rest[i].rerank_score >= x.rerank_score})
         IN  SubSeq(rest, 1, before) \o <<x>> \o SubSeq(rest, before + 1, Len(rest))

\* if not retrieved_chunks: return []; ...; return sorted(...)[:config.K_RERANK]
_build_reranked_chunks(scores) ==
    IF scores = <<>> THEN <<>>
    ELSE Prefix(sorted_reverse(Scored(scores)), K_RERANK)

RerankInit ==
    /\ FunctionInit
    /\ fn_pc = "call"
    /\ fn_in \in RerankInputs
    /\ fn_out = <<>>

\* reranked_chunks = self._build_reranked_chunks(query, source_filter)
RerankCall ==
    /\ fn_pc = "call"
    /\ fn_out' = _build_reranked_chunks(fn_in)
    /\ fn_pc' = "returned"
    /\ UNCHANGED <<sessionvars, fn_in>>

RerankSpec == RerankInit /\ [][RerankCall]_vars

----------------------------------------------------------------------------
\* ConversationMemory.add_turn on a memory of its own: history window and patient
\* profile.

\* Largest window a memory is built with.
MaxWindow == 2

\* Most add_turn calls made on one memory.
MaxCalls == 3

\* Turn texts, as the words between blanks.
Texts ==
    {<<"I", "am", "34", "years", "old", "and", "male">>,
     <<"actually", "female">>,
     <<"no", "change">>,
     <<"pain", "for", "3", "days">>,
     <<"150", "then", "61">>,
     <<"a", "Woman", "of", "61">>,
     <<"every", "human", "1234">>,
     <<>>}

\* str.lower() on the words in use.
Lower(w) == IF w = "I" THEN "i" ELSE IF w = "Woman" THEN "woman" ELSE w

\* The terms of the two gender lists that occur in a (lower-case) word as substrings.
TermsIn(w) ==
    CASE w = "female" -> {"female", "male"}
      [] w = "woman" -> {"woman", "man"}
      [] w = "human" -> {"man"}
      [] w \in {"girl", "male", "man", "boy"} -> {w}
      [] OTHER -> {}

\* any(g in text for g in terms): the terms hold no blank, so a term occurs in the
\* text exactly when it occurs in one of its words.
any_in(terms, text) ==
    \E i \in 1..Len(text) : TermsIn(Lower(text[i])) \cap terms # {}

\* int(w) for a word the pattern \b(\d{1,3})\b matches, -1 for any other word.
IntOf(w) ==
    CASE w = "34" -> 34
      [] w = "3" -> 3
      [] w = "61" -> 61
      [] w = "150" -> 150
      [] OTHER -> -1

\* re.search(r"\b(\d{1,3})\b", text): the first match, -1 when there is none.
first_integer(text) ==
    IF \E i \in 1..Len(text) : IntOf(text[i]) >= 0
    THEN IntOf(text[CHOOSE i \in 1..Len(text) :
                        /\ IntOf(text[i]) >= 0
                        /\ \A j \in 1..(i - 1) : IntOf(text[j]) < 0])
    ELSE -1

\* patient_age = None
NoAge == -1

NoProfile == [patient_age |-> NoAge, patient_gender |-> "None"]

\* Mutant: a text without a gender term resets the gender.
_update_patient_profile_resetting(profile, content) ==
    [patient_gender |->
         IF any_in({"female", "woman", "girl"}, content) THEN "female"
         ELSE IF any_in({"male", "man", "boy"}, content) THEN "male"
         ELSE "None",
     patient_age |->
         IF 0 < first_integer(content) /\ first_integer(content) < 120
         THEN first_integer(content)
         ELSE profile.patient_age]

_update_patient_profile(profile, content) ==
    [patient_gender |->
         IF any_in({"female", "woman", "girl"}, content) THEN "female"
         ELSE IF any_in({"male", "man", "boy"}, content) THEN "male"
         ELSE profile.patient_gender,
     patient_age |->
         IF 0 < first_integer(content) /\ first_integer(content) < 120
         THEN first_integer(content)
         ELSE profile.patient_age]

\* memory = ConversationMemory(max_turns); fn_in keeps the window and the calls
\* made so far, fn_out is the memory.
MemoryInit ==
    /\ FunctionInit
    /\ fn_pc = "memory"
    /\ fn_in \in [max_turns : 1..MaxWindow, calls : {<<>>}]
    /\ fn_out = [history |-> <<>>, user_turn_count |-> 0, profile |-> NoProfile]

\* memory.add_turn(role, content)
MemoryAddTurn ==
    /\ fn_pc = "memory"
    /\ Len(fn_in.calls) < MaxCalls
    /\ \E role \in {"user", "assistant"}, content \in Texts :
          LET turn == [role |-> role, content |-> content]
          IN  /\ fn_in' = [fn_in EXCEPT !.calls = Append(@, turn)]
              /\ fn_out' =
                    [history |-> append_turn(fn_out.history, turn, fn_in.max_turns),
                     user_turn_count |->
                         IF role = "user" THEN fn_out.user_turn_count + 1
                         ELSE fn_out.user_turn_count,
                     profile |->
                         IF role = "user"
                         THEN _update_patient_profile(fn_out.profile, content)
                         ELSE fn_out.profile]
    /\ UNCHANGED <<sessionvars, fn_pc>>

MemorySpec == MemoryInit /\ [][MemoryAddTurn]_vars

----------------------------------------------------------------------------
\* Generator._is_duplicate_question on a candidate and the questions asked before.

\* Longest candidate question, in words between blanks.
MaxQuestionWords == 3

\* Most previous questions the candidate is compared with.
MaxPrevious == 2

\* Words a question is written with: capitals, punctuation attached to a word or
\* inside it, and punctuation standing alone.
RawWords == {"Fever", "fever?", "ear-pain", "ear", "night", "??"}

\* A word after lower(), the replacement of every character outside a-z, 0-9 and
\* white space by a blank, and the split at blanks.
NormalizeWord(w) ==
    CASE w \in {"Fever", "fever?"} -> <<"fever">>
      [] w = "ear-pain" -> <<"ear", "pain">>
      [] w \in {"??", "?"} -> <<>>
      [] w = "Do" -> <<"do">>
      [] w = "hearing," -> <<"hearing">>
      [] w = "ringing," -> <<"ringing">>
      [] w = "pain?" -> <<"pain">>
      [] OTHER -> <<w>>

\* The normalised string, as the sequence of its tokens (the string joins them
\* with single blanks, so two strings are equal exactly when the sequences are).
RECURSIVE _normalize_question(_)
_normalize_question(text) ==
    IF text = <<>> THEN <<>>
    ELSE NormalizeWord(Head(text)) \o _normalize_question(Tail(text))

\* Questions the assistant asked before.
AskedQuestions ==
    {<<"fever?">>, <<"Fever", "ear-pain", "night">>, <<"ear", "night">>, <<"??">>}

\* The caller passes a candidate that is not the empty string.
DuplicateInputs ==
    [candidate : SeqsUpTo(RawWords, MaxQuestionWords) \ {<<>>},
     previous_questions : SeqsUpTo(AskedQuestions, MaxPrevious)]

\* Mutant: an overlap of exactly 0.75 is not a duplicate.
_is_duplicate_question_strict(candidate, previous_questions) ==
    LET cand_norm == _normalize_question(candidate)
        cand_tokens == Range(cand_norm)
    IN  IF cand_norm = <<>> \/ cand_tokens = {} THEN FALSE
        ELSE \E p \in 1..Len(previous_questions) :
                LET prev_norm == _normalize_question(previous_questions[p])
                    prev_tokens == Range(prev_norm)
                IN  \/ cand_norm = prev_norm
                    \/ /\ prev_tokens # {}
                       /\ 4 * Cardinality(cand_tokens \cap prev_tokens)
                              > 3 * Cardinality(cand_tokens \cup prev_tokens)

\* The loop returns True at the first previous question that matches, so the
\* result is whether one matches; overlap >= 0.75 is 4 * shared >= 3 * all.
_is_duplicate_question(candidate, previous_questions) ==
    LET cand_norm == _normalize_question(candidate)
        cand_tokens == Range(cand_norm)
    IN  IF cand_norm = <<>> \/ cand_tokens = {} THEN FALSE
        ELSE \E p \in 1..Len(previous_questions) :
                LET prev_norm == _normalize_question(previous_questions[p])
                    prev_tokens == Range(prev_norm)
                IN  \/ cand_norm = prev_norm
                    \/ /\ prev_tokens # {}
                       /\ 4 * Cardinality(cand_tokens \cap prev_tokens)
                              >= 3 * Cardinality(cand_tokens \cup prev_tokens)

DuplicateInit ==
    /\ FunctionInit
    /\ fn_pc = "call"
    /\ fn_in \in DuplicateInputs
    /\ fn_out = FALSE

\* self._is_duplicate_question(candidate, previous_questions)
DuplicateCall ==
    /\ fn_pc = "call"
    /\ fn_out' = _is_duplicate_question(fn_in.candidate, fn_in.previous_questions)
    /\ fn_pc' = "returned"
    /\ UNCHANGED <<sessionvars, fn_in>>

DuplicateSpec == DuplicateInit /\ [][DuplicateCall]_vars

----------------------------------------------------------------------------
\* Generator.generate in gathering and uncertain mode, over the gathering turns of
\* a session: the retry loop of one turn, then the next turn with the emitted text
\* in the history.

\* Most gathering turns explored.
MaxQuestionTurns == 3

\* for attempt in range(3)
question_attempts == 3

\* Mutant: the loop runs once more.
loop_exhausted_late(attempts) == Len(attempts) > question_attempts

\* The loop has made its last pass.
loop_exhausted(attempts) == Len(attempts) >= question_attempts

\* What generate_text may return for the question prompt, after strip() and the
\* collapse of white space: nothing, or a line of words.
QuestionCandidates ==
    {<<>>, <<"Fever">>, <<"fever?">>, <<"ear", "night">>, <<"??">>}

\* "?" in candidate
HasQuestionMark(text) ==
    \E i \in 1..Len(text) : text[i] \in {"fever?", "??", "?", "pain?"}

\* candidate + "?" when the candidate holds text and no question mark; the mark is
\* kept as a word of its own, which normalises like the mark attached to the
\* last word.
with_question_mark(candidate) ==
    IF candidate # <<>> /\ ~HasQuestionMark(candidate) THEN Append(candidate, "?")
    ELSE candidate

\* "Do you have reduced hearing, ringing, or fever along with the ear pain?"
fallback_question ==
    <<"Do", "you", "have", "reduced", "hearing,", "ringing,", "or", "fever", "along",
      "with", "the", "ear", "pain?">>

\* The candidate is yielded: it holds text and is no duplicate.
accepted(candidate, previous_questions) ==
    /\ candidate # <<>>
    /\ ~_is_duplicate_question(candidate, previous_questions)

\* _extract_previous_questions after the text is added to the history: an
\* assistant line is a previous question when it holds a question mark.
with_asked(previous_questions, text) ==
    IF HasQuestionMark(text) THEN Append(previous_questions, text)
    ELSE previous_questions

\* fn_in: the questions found in the history and the candidates of the calls made
\* in this turn; fn_out: what the turn yielded.
QuestionInit ==
    /\ FunctionInit
    /\ fn_pc = "loop"
    /\ fn_in = [previous_questions |-> <<>>, turn |-> 1, attempts |-> <<>>,
                raised |-> FALSE]
    /\ fn_out = <<>>

\* One pass of the loop: generate_text returns, the candidate is yielded or the
\* loop goes on with the retry prompt.
QuestionAttempt ==
    /\ fn_pc = "loop"
    /\ ~loop_exhausted(fn_in.attempts)
    /\ \E text \in QuestionCandidates :
          LET candidate == with_question_mark(text)
          IN  /\ fn_in' = [fn_in EXCEPT !.attempts = Append(@, candidate)]
              /\ IF accepted(candidate, fn_in.previous_questions)
                 THEN /\ fn_out' = <<[kind |-> "question", text |-> candidate]>>
                      /\ fn_pc' = "yielded"
                 ELSE UNCHANGED <<fn_out, fn_pc>>
    /\ UNCHANGED sessionvars

\* generate_text raises: except Exception as e: yield the error message.
QuestionRaises ==
    /\ fn_pc = "loop"
    /\ ~loop_exhausted(fn_in.attempts)
    /\ fn_in' = [fn_in EXCEPT !.attempts = Append(@, <<>>), !.raised = TRUE]
    /\ fn_out' = <<[kind |-> "error", text |-> <<>>]>>
    /\ fn_pc' = "yielded"
    /\ UNCHANGED sessionvars

\* The loop is exhausted: yield the fixed question.
QuestionFallback ==
    /\ fn_pc = "loop"
    /\ loop_exhausted(fn_in.attempts)
    /\ fn_out' = <<[kind |-> "question", text |-> fallback_question]>>
    /\ fn_pc' = "yielded"
    /\ UNCHANGED <<sessionvars, fn_in>>

\* memory.add_turn("assistant", full_response), and the next gathering turn calls
\* generate with the history that holds it.
QuestionNextTurn ==
    /\ fn_pc = "yielded"
    /\ fn_in.turn < MaxQuestionTurns
    /\ fn_in' = [previous_questions |->
                     with_asked(fn_in.previous_questions, fn_out[1].text),
                 turn |-> fn_in.turn + 1, attempts |-> <<>>, raised |-> FALSE]
    /\ fn_out' = <<>>
    /\ fn_pc' = "loop"
    /\ UNCHANGED sessionvars

QuestionNext ==
    \/ QuestionAttempt
    \/ QuestionRaises
    \/ QuestionFallback
    \/ QuestionNextTurn

QuestionSpec == QuestionInit /\ [][QuestionNext]_vars

----------------------------------------------------------------------------
\* HybridFusionRetriever: the lexical index built from the metadata, and the
\* queries of any number of sessions on it. Chunk indices start at 1.

\* Most chunks of a corpus.
MaxCorpus == 2

\* Most queries put to one index.
MaxQueries == 3

\* Chunk texts and query texts, as the tokens _tokenize finds in them.
ChunkTexts == {<<>>, <<"vata">>, <<"vata", "pitta">>, <<"pitta", "pitta">>}

QueryTexts ==
    {<<>>, <<"vata">>, <<"pitta">>, <<"kapha">>, <<"vata", "pitta">>,
     <<"kapha", "vata", "vata">>}

ChunkSources == {"charaka", "sushruta"}

\* source_filter=None
NoFilter == ""

\* A metadata record: the text, the source, and the keys added to the record
\* after it was loaded.
MetadataRecords == [text : ChunkTexts, source : ChunkSources, added : {{}}]

\* metadata.json
Corpora == SeqsUpTo(MetadataRecords, MaxCorpus)

\* The orders in which the runtime may iterate a set of chunk indices: fixed by
\* the hash table of the set, not by the code.
IterationOrders(n) == {o \in [1..n -> 1..n] : IsInjective(o)}

LexicalQueries ==
    [text : QueryTexts, top_k : {1, 2}, source_filter : {NoFilter, "charaka"}]

\* Counter(tokens)
Counter(tokens) ==
    [t \in Range(tokens) |-> Cardinality({i \in 1..Len(tokens) : tokens[i] = t})]

RECURSIVE sum_lengths(_)
\* sum(self.doc_lengths)
sum_lengths(lengths) ==
    IF lengths = <<>> THEN 0 ELSE Head(lengths) + sum_lengths(Tail(lengths))

\* _build_bm25_index: df and postings have an entry for the terms of the corpus
\* only; avg_doc_len is kept as the sum of the lengths over num_docs.
_build_bm25_index(metadata) ==
    LET terms == UNION {Range(metadata[i].text) : i \in 1..Len(metadata)}
        holds(t) == {i \in 1..Len(metadata) : t \in Range(metadata[i].text)}
    IN  [doc_term_freqs |-> [i \in 1..Len(metadata) |-> Counter(metadata[i].text)],
         doc_lengths |-> [i \in 1..Len(metadata) |-> Len(metadata[i].text)],
         doc_sources |-> [i \in 1..Len(metadata) |-> metadata[i].source],
         df |-> [t \in terms |-> Cardinality(holds(t))],
         postings |-> [t \in terms |->
                          SelectSeq([i \in 1..Len(metadata) |-> i],
                                    LAMBDA i : i \in holds(t))],
         num_docs |-> Len(metadata),
         sum_doc_len |-> sum_lengths([i \in 1..Len(metadata) |->
                                         Len(metadata[i].text)])]

\* Mutant: d[key] on a defaultdict, which stores the default under a missing key.
defaultdict_getitem(d, key, default) ==
    [value |-> IF key \in DOMAIN d THEN d[key] ELSE default,
     dict |-> IF key \in DOMAIN d THEN d ELSE (key :> default) @@ d]

\* d.get(key, default): the value, and the dict as the call leaves it.
get(d, key, default) ==
    [value |-> IF key \in DOMAIN d THEN d[key] ELSE default, dict |-> d]

RECURSIVE after_gets(_, _, _)
\* The dict after get was called for each of the keys.
after_gets(d, keys, default) ==
    IF keys = <<>> THEN d
    ELSE after_gets(get(d, Head(keys), default).dict, Tail(keys), default)

\* math.log(1.0 + (num_docs - df + 0.5) / (df + 0.5)), in millionths, for the
\* corpora of at most four chunks.
idf(num_docs, df) ==
    CASE num_docs = 1 -> 287682
      [] num_docs = 2 -> IF df = 1 THEN 693147 ELSE 182322
      [] num_docs = 3 -> IF df = 1 THEN 980829 ELSE IF df = 2 THEN 470004 ELSE 133531
      [] OTHER -> IF df = 1 THEN 1203973 ELSE IF df = 2 THEN 693147
                  ELSE IF df = 3 THEN 356675 ELSE 105361

\* idf * (f * (k1 + 1.0)) / (f + k1 * (1.0 - b + b * (dl / avg_doc_len))) with
\* k1 = 1.2 and b = 0.75, numerator and denominator multiplied by
\* 10 * sum_doc_len; in millionths, rounded down.
term_score(index, doc_id, term) ==
    LET f == get(index.doc_term_freqs[doc_id], term, 0).value
        dl == index.doc_lengths[doc_id]
        df == get(index.df, term, 0).value
    IN  IF f = 0 THEN 0
        ELSE (idf(index.num_docs, df) * 22 * f * index.sum_doc_len)
                 \div (10 * f * index.sum_doc_len + 3 * index.sum_doc_len
                       + 9 * dl * index.num_docs)

RECURSIVE bm25_score(_, _, _)
\* for term in terms: score += ...
bm25_score(index, doc_id, terms) ==
    IF terms = <<>> THEN 0
    ELSE term_score(index, doc_id, Head(terms)) + bm25_score(index, doc_id, Tail(terms))

RECURSIVE postings_of(_, _)
\* candidate_ids.update(self.postings.get(term, [])) for each term
postings_of(index, terms) ==
    IF terms = <<>> THEN {}
    ELSE Range(get(index.postings, Head(terms), <<>>).value)
             \cup postings_of(index, Tail(terms))

\* sorted(scores.items(), key=lambda x: x[1], reverse=True): a stable sort, the
\* candidates of equal score stay in the order of the dict.
ranked(scored) ==
    IF scored = <<>> THEN <<>>
    ELSE LET n == Len(scored)
             before(i) == Cardinality({j \in 1..n :
                              \/ scored[j].score > scored[i].score
                              \/ /\ scored[j].score = scored[i].score
                                 /\ j < i})
         IN  [p \in 1..n |-> scored[CHOOSE i \in 1..n : before(i) = p - 1]]

\* _bm25_top_indices(query, top_k, source_filter): the ranking, and the index as
\* the call leaves it. order is the order in which the set candidate_ids is
\* iterated.
_bm25_top_indices(index, order, query) ==
    LET terms == query.text
        posted == postings_of(index, terms)
        filtered == IF query.source_filter # NoFilter
                    THEN {i \in posted : index.doc_sources[i] = query.source_filter}
                    ELSE posted
        iterated == SelectSeq(order, LAMBDA i : i \in filtered)
        scores == SelectSeq([p \in 1..Len(iterated) |->
                                [doc_id |-> iterated[p],
                                 score |-> IF index.doc_lengths[iterated[p]] = 0 THEN 0
                                           ELSE bm25_score(index, iterated[p], terms)]],
                            LAMBDA x : x.score > 0)
        sorted == ranked(scores)
        scored_terms == SelectSeq(terms, LAMBDA t :
                            \E i \in filtered :
                               /\ index.doc_lengths[i] # 0
                               /\ t \in DOMAIN index.doc_term_freqs[i])
        looked_up == [index EXCEPT !.postings = after_gets(@, terms, <<>>)]
        after == [looked_up EXCEPT !.df = after_gets(@, scored_terms, 0)]
    IN  IF index.num_docs = 0 \/ terms = <<>> THEN [ranking |-> <<>>, index |-> index]
        ELSE IF filtered = {} THEN [ranking |-> <<>>, index |-> looked_up]
        ELSE [ranking |-> Prefix([p \in 1..Len(sorted) |-> sorted[p].doc_id],
                                 query.top_k),
              index |-> after]

\* item = dict(self.metadata[doc_id]): a copy of the record; of names the metadata
\* record the item is (NoIndex: none, the item is an object of its own).
dict_copy(metadata, doc_id) == [of |-> NoIndex]

\* item[key] = ...: when the item is a metadata record, the record has the key.
setitem(metadata, item, key) ==
    IF item.of = NoIndex THEN metadata
    ELSE [metadata EXCEPT ![item.of].added = @ \cup {key}]

RECURSIVE with_scores(_, _, _)
\* The metadata after the fusion score (retrieve) and the rerank score
\* (_build_reranked_chunks) are set on the result of each index.
with_scores(metadata, ranking, keys) ==
    IF ranking = <<>> THEN metadata
    ELSE LET item == dict_copy(metadata, Head(ranking))
             set_one == setitem(metadata, item, keys[1])
         IN  with_scores(setitem(set_one, item, keys[2]), Tail(ranking), keys)

\* fn_in: the corpus as loaded, the metadata and the index in memory, the order of
\* iteration, the number of queries answered and the first of them with its
\* ranking; fn_out: the last query and its ranking.
LexicalInit ==
    /\ FunctionInit
    /\ fn_pc = "built"
    /\ \E corpus \in Corpora :
       \E order \in IterationOrders(Len(corpus)) :
          fn_in = [corpus |-> corpus, metadata |-> corpus,
                   index |-> _build_bm25_index(corpus), order |-> order,
                   queries |-> 0, first |-> <<>>]
    /\ fn_out = <<>>

\* A session retrieves for its query and reranks the results. After the first
\* query, sessions repeat it or ask for a term no chunk holds.
LexicalRetrieve ==
    /\ fn_pc \in {"built", "retrieved"}
    /\ fn_in.queries < MaxQueries
    /\ \E query \in LexicalQueries :
          LET call == _bm25_top_indices(fn_in.index, fn_in.order, query)
              result == [query |-> query, ranking |-> call.ranking]
          IN  /\ fn_in.queries > 0 =>
                    \/ query = fn_in.first[1].query
                    \/ query = [text |-> <<"kapha">>, top_k |-> 2,
                                source_filter |-> NoFilter]
              /\ fn_in' = [fn_in EXCEPT
                              !.index = call.index,
                              !.metadata = with_scores(@, call.ranking,
                                               <<"fusion_score", "rerank_score">>),
                              !.queries = @ + 1,
                              !.first = IF fn_in.queries = 0 THEN <<result>> ELSE @]
              /\ fn_out' = <<result>>
    /\ fn_pc' = "retrieved"
    /\ UNCHANGED sessionvars

LexicalSpec == LexicalInit /\ [][LexicalRetrieve]_vars

----------------------------------------------------------------------------
\* Properties.

flagvars == <<diagnosis_complete, waiting_remedies_consent,
              waiting_treatment_risk_profile, treatment_risk_profile_collected,
              last_diagnosis>>

\* The turn ran self_check_differential and took a branch on the composed report.
DifferentialDecided == pc = "reply" /\ self_check # None

HistoryHasRedFlagText == \E i \in 1..Len(history) : history[i].rf

\* C1: the safety engine is evaluated before any retrieval or memory mutation of a
\* turn, and a turn on which it reports a risk ends with the alert and leaves the
\* memory (history, user_turn_count, every dialogue flag, last_diagnosis) unchanged.
C1_SafetyGateFrame ==
    [][ /\ pc = "idle" => (memvars' = memvars /\ reranked_chunks' = "none")
        /\ (memvars' # memvars \/ reranked_chunks' # reranked_chunks)
              => (user_input.given /\ is_safe /\ ~user_input.risk)
        /\ (pc = "checked" /\ user_input.risk)
              => (memvars' = memvars /\ response'.mode = "alert" /\ pc' = "idle") ]_vars

\* An alert was raised while the session was waiting for the consent answer.
C1_Witness ==
    /\ pc = "idle"
    /\ response.mode = "alert"
    /\ waiting_remedies_consent
    /\ user_turn_count >= MIN_GATHERING_QUESTIONS

\* C2: a response in remedies mode is produced only after a differential turn
\* branched to DIAGNOSED, then an affirmative consent answer, then (gate enabled) an
\* answer to the risk-profile question, with no ESCALATE / UNCERTAIN /
\* UNCERTAIN_FINAL outcome after that DIAGNOSED outcome.
C2_RemediesOnlyAfterGates ==
    response.mode = "remedies" =>
        stage = (IF ENABLE_TREATMENT_RISK_GATE THEN "profiled" ELSE "consented")

C2_Witness ==
    /\ pc = "done"
    /\ ENABLE_TREATMENT_RISK_GATE
    /\ response.mode = "remedies"
    /\ response.kind = "generated"
    /\ user_turn_count >= final_diagnosis_turn

\* C3: in a differential turn, red flags in the report or an escalation required by
\* the self-check give ESCALATE whatever the confidence and uncertainty: escalation
\* mode, waiting_remedies_consent not set, and the auditor's marker among the
\* report's red flags when the self-check required the escalation.
C3_EscalationDominates ==
    (DifferentialDecided
     /\ (differential.red_flags_present # {} \/ self_check.requires_medical_escalation))
    => /\ response.mode = "escalation"
       /\ ~waiting_remedies_consent
       /\ self_check.requires_medical_escalation
             => "auditor_escalation" \in differential.red_flags_present

\* The auditor alone forces the escalation of a confident, low-uncertainty report.
C3_Witness ==
    /\ DifferentialDecided
    /\ self_check.requires_medical_escalation
    /\ differential.red_flags_present = {"auditor_escalation"}
    /\ differential.most_likely_confidence = 90
    /\ differential.uncertainty_level = "low"
    /\ response.mode = "escalation"

\* C4: in a differential turn without red flags and without required escalation the
\* outcome is DIAGNOSED (consent awaited, snapshot stored, diagnosis not complete)
\* exactly when the capped confidence is >= 0.70, the uncertainty is not high and
\* the self-check flags neither overconfidence nor missing differentials; otherwise
\* it is UNCERTAIN or UNCERTAIN_FINAL and no consent is awaited.
C4_DiagnosedExactlyWhenConfident ==
    (DifferentialDecided
     /\ differential.red_flags_present = {} /\ ~self_check.requires_medical_escalation)
    => IF /\ differential.most_likely_confidence >= 70
          /\ differential.uncertainty_level # "high"
          /\ ~self_check.overconfident
          /\ ~self_check.missing_differentials
       THEN /\ response.mode = "diagnosis"
            /\ waiting_remedies_consent
            /\ last_diagnosis = [kind |-> "report",
                                 confidence |-> differential.most_likely_confidence,
                                 uncertainty |-> differential.uncertainty_level]
            /\ ~diagnosis_complete
       ELSE /\ response.mode \in {"uncertain", "uncertain_final"}
            /\ ~waiting_remedies_consent

\* Confidence 0.9, uncertainty low, no red flags: DIAGNOSED.
C4_Witness ==
    /\ DifferentialDecided
    /\ differential.most_likely_confidence = 90
    /\ differential.uncertainty_level = "low"
    /\ differential.red_flags_present = {}
    /\ response.mode = "diagnosis"
    /\ waiting_remedies_consent

C6_RoutingOnTurnCount ==
    [][ (pc = "route" /\ reranked_chunks = "nonempty" /\ ~diagnosis_complete
         /\ ~waiting_remedies_consent /\ ~waiting_treatment_risk_profile)
        => IF user_turn_count < 15 \/ (15 < user_turn_count /\ user_turn_count < 20)
           THEN /\ pc' = "reply"
                /\ response'.mode = "gathering"
                /\ final_attempt' = "unset"
                /\ UNCHANGED flagvars
           ELSE /\ pc' = "differential"
                /\ final_attempt' = (IF user_turn_count = 15 THEN "false" ELSE "true")
                /\ UNCHANGED flagvars ]_vars

\* A final attempt is entered on a turn past the extended threshold.
C6_Witness ==
    /\ pc = "differential"
    /\ final_attempt = "true"
    /\ user_turn_count > final_diagnosis_turn

\* C7: an uncertain outcome ends the session only on a final attempt: then the mode
\* is uncertain_final and diagnosis_complete is set; on the first attempt the mode is
\* uncertain, diagnosis_complete stays false and the session goes back to gathering.
\* Neither sets waiting_remedies_consent.
C7_UncertainEndsOnlyOnFinalAttempt ==
    /\ (DifferentialDecided /\ response.mode \in {"uncertain", "uncertain_final"})
       => /\ ~waiting_remedies_consent
          /\ final_attempt = "true"
                => (response.mode = "uncertain_final" /\ diagnosis_complete)
          /\ final_attempt = "false"
                => (response.mode = "uncertain" /\ ~diagnosis_complete)
    /\ response.mode = "uncertain_final" => (diagnosis_complete /\ pc \in {"reply", "done"})
    /\ (response.mode = "uncertain" /\ pc \in {"idle", "done"})
       => /\ ~diagnosis_complete
          /\ ~waiting_remedies_consent /\ ~waiting_treatment_risk_profile
          /\ user_turn_count = MIN_GATHERING_QUESTIONS

\* The final attempt of a session whose first attempt had stored a report ends it.
C7_Witness ==
    /\ pc = "done"
    /\ response.mode = "uncertain_final"
    /\ diagnosis_complete
    /\ ~waiting_remedies_consent
    /\ user_turn_count = final_diagnosis_turn

\* C8: the confidence the branch is taken on is min(generated confidence, cap): it
\* lies in [0,1], is never above the generated value nor above the cap (with cap
\* 0.4 never above 0.4), and it is the value stored in the snapshot.
C8_ConfidenceIsCapped ==
    [][ (pc = "selfcheck" /\ pc' = "reply")
        => LET generated == differential.most_likely_confidence
               cap == self_check'.adjusted_confidence_cap
               final == differential'.most_likely_confidence
           IN  /\ final = (IF generated <= cap THEN generated ELSE cap)
               /\ final \in 0..100
               /\ final <= generated /\ final <= cap
               /\ cap = 40 => final <= 40
               /\ last_diagnosis'.confidence = final
               /\ final < 70 => response'.mode # "diagnosis" ]_vars

\* A cap of 0.4 held a report below the threshold: uncertain although the
\* uncertainty is low and nothing else is flagged.
C8_Witness ==
    /\ DifferentialDecided
    /\ self_check.adjusted_confidence_cap = 40
    /\ differential.most_likely_confidence = 40
    /\ differential.uncertainty_level = "low"
    /\ ~self_check.overconfident /\ ~self_check.missing_differentials
    /\ response.mode = "uncertain"

\* C9: while consent is awaited and retrieval is non-empty, an affirmative answer
\* clears the flag and, gate enabled and no profile collected, asks the risk-profile
\* question without completing the diagnosis, otherwise goes to remedies and
\* completes it; any other answer clears the flag, completes the diagnosis and
\* answers the farewell, never remedies nor the risk-profile question.
C9_ConsentAnswer ==
    [][ (pc = "route" /\ waiting_remedies_consent /\ reranked_chunks = "nonempty")
        => /\ pc' = "reply"
           /\ ~waiting_remedies_consent'
           /\ UNCHANGED <<history, user_turn_count, last_diagnosis,
                          treatment_risk_profile_collected>>
           /\ IF user_input.affirm
              THEN IF ENABLE_TREATMENT_RISK_GATE /\ ~treatment_risk_profile_collected
                   THEN /\ waiting_treatment_risk_profile'
                        /\ response'.mode = "risk_gate_question"
                        /\ diagnosis_complete' = diagnosis_complete
                   ELSE /\ response'.mode = "remedies"
                        /\ diagnosis_complete'
                        /\ ~waiting_treatment_risk_profile'
              ELSE /\ diagnosis_complete'
                   /\ response' = Fixed("farewell")
                   /\ ~waiting_treatment_risk_profile' ]_vars

\* The consent was given and the risk-profile question is being asked.
C9_Witness ==
    /\ pc = "reply"
    /\ response.mode = "risk_gate_question"
    /\ user_input.affirm
    /\ waiting_treatment_risk_profile
    /\ ~waiting_remedies_consent
    /\ ~diagnosis_complete

\* C10: while the risk-profile answer is awaited and retrieval is non-empty, the
\* turn is consumed as that answer whatever the user-turn count: the waiting flag is
\* cleared, the profile is marked collected, the diagnosis is complete and the
\* response is in remedies mode.
C10_RiskProfileAnswerFirst ==
    [][ (pc = "route" /\ waiting_treatment_risk_profile /\ reranked_chunks = "nonempty")
        => /\ pc' = "reply"
           /\ ~waiting_treatment_risk_profile'
           /\ treatment_risk_profile_collected'
           /\ diagnosis_complete'
           /\ response'.mode = "remedies"
           /\ final_attempt' = "unset"
           /\ UNCHANGED <<history, user_turn_count, last_diagnosis,
                          waiting_remedies_consent>> ]_vars

\* The answer was consumed on a turn whose count alone would have run the final
\* differential attempt.
C10_Witness ==
    /\ pc = "reply"
    /\ response.mode = "remedies"
    /\ treatment_risk_profile_collected
    /\ ~waiting_treatment_risk_profile
    /\ diagnosis_complete
    /\ user_turn_count >= final_diagnosis_turn

\* C11: for every output the generation capability can return,
\* generate_differential_diagnosis returns a report whose candidate list has at
\* least 3 entries, in which the most-likely confidence and each candidate's
\* confidence lie in [0, 1], uncertainty_level is low, moderate or high, and
\* red_flags_present is a list.
C11_ReportIsNormalised ==
    fn_pc = "returned" =>
        /\ fn_out.kind = "report"
        /\ Len(fn_out.possible_conditions) >= 3
        /\ fn_out.most_likely_confidence \in 0..100
        /\ \A i \in 1..Len(fn_out.possible_conditions) :
              fn_out.possible_conditions[i] \in 0..100
        /\ fn_out.uncertainty_level \in {"low", "moderate", "high"}
        /\ fn_out.red_flags_present \subseteq {"generator_flag"}

\* C12: when the output of the differential prompt is unparseable, the report is the
\* fixed neutral three-way differential with uncertainty high, and the turn never
\* ends DIAGNOSED: waiting_remedies_consent is not set and the outcome is
\* UNCERTAIN, UNCERTAIN_FINAL or ESCALATE.
C12_UnparseableNeverDiagnosed ==
    [][ (pc = "selfcheck" /\ raw_differential = "unparseable") =>
            /\ differential.kind = "report"
            /\ Len(differential.possible_conditions) = 3
            /\ differential.uncertainty_level = "high"
            /\ ~waiting_remedies_consent'
            /\ pc' = "reply" =>
                  response'.mode \in {"uncertain", "uncertain_final", "escalation"} ]_vars

\* A differential decision is taken on the substitute report.
C12_Witness ==
    /\ DifferentialDecided
    /\ raw_differential = "unparseable"
    /\ response.mode = "uncertain"

\* C13: when text generation errors during a turn, the turn yields the error message
\* and the session state is otherwise as before the turn: user_turn_count,
\* waiting_remedies_consent, waiting_treatment_risk_profile,
\* treatment_risk_profile_collected, diagnosis_complete and last_diagnosis have
\* the values they had when the turn began.
C13_GenerationErrorLeavesStateUnchanged ==
    [][ (pc = "reply" /\ response'.kind = "error") =>
            /\ turn_start.taken
            /\ user_turn_count' = turn_start.user_turn_count
            /\ waiting_remedies_consent' = turn_start.waiting_remedies_consent
            /\ waiting_treatment_risk_profile' =
                  turn_start.waiting_treatment_risk_profile
            /\ treatment_risk_profile_collected' =
                  turn_start.treatment_risk_profile_collected
            /\ diagnosis_complete' = turn_start.diagnosis_complete
            /\ last_diagnosis' = turn_start.last_diagnosis ]_vars

\* C14: an exception raised inside safety evaluation, query rewriting, differential
\* generation or self-check never crashes the session: the turn still ends with a
\* response and the loop continues.
C14_ExceptionsNeverCrashTheSession == pc # "crashed"

\* C15: when retrieval returns no chunks, run() returns the fixed 'No relevant
\* information found.' reply without raising and changes no dialogue flag, whatever
\* the dialogue state: a pending consent or risk-profile answer stays pending, and
\* the flags at the end of the turn are those the turn began with.
C15_EmptyRetrievalChangesNoFlag ==
    [][ /\ (pc = "route" /\ reranked_chunks = "empty") =>
              /\ pc' = "reply"
              /\ response' = Fixed("no_info")
              /\ flagvars' = flagvars
        /\ (pc = "reply" /\ reranked_chunks = "empty") =>
              /\ response'.mode = "no_info"
              /\ flagvars' = <<turn_start.diagnosis_complete,
                               turn_start.waiting_remedies_consent,
                               turn_start.waiting_treatment_risk_profile,
                               turn_start.treatment_risk_profile_collected,
                               turn_start.last_diagnosis>>
              /\ pc' = "idle" ]_vars

\* The fixed reply is given while the risk-profile answer is pending.
C15_Witness ==
    /\ pc = "idle"
    /\ response = Fixed("no_info")
    /\ waiting_treatment_risk_profile
    /\ ~diagnosis_complete

\* C16: HybridFusionRetriever.retrieve returns at most k items, no chunk twice, in
\* non-increasing order of dense_weight / (rrf_k + dense rank)
\* + bm25_weight / (rrf_k + bm25 rank), where a list the chunk is absent from adds
\* nothing and the dense rank is that of the chunk's first occurrence; when both
\* lists are empty the result is empty.
C16_FusionOrder ==
    fn_pc = "returned" =>
        LET FirstIn(l, doc) ==
                IF \E i \in 1..Len(l) : l[i] = doc
                THEN CHOOSE i \in 1..Len(l) :
                        l[i] = doc /\ \A j \in 1..(i - 1) : l[j] # doc
                ELSE 0
            Fused(doc) ==
                LET dr == FirstIn(fn_in.dense, doc)
                    br == FirstIn(fn_in.bm25, doc)
                    dn == IF dr = 0 THEN 0 ELSE dense_weight
                    dd == IF dr = 0 THEN 1 ELSE rrf_k + dr
                    bn == IF br = 0 THEN 0 ELSE bm25_weight
                    bd == IF br = 0 THEN 1 ELSE rrf_k + br
                IN  <<dn * bd + bn * dd, dd * bd>>
        IN  /\ Len(fn_out) <= fn_in.k
            /\ \A i, j \in 1..Len(fn_out) :
                  fn_out[i].metadata_index = fn_out[j].metadata_index => i = j
            /\ \A i \in 1..(Len(fn_out) - 1) :
                  Fused(fn_out[i].metadata_index)[1] * Fused(fn_out[i + 1].metadata_index)[2]
                      >= Fused(fn_out[i + 1].metadata_index)[1]
                             * Fused(fn_out[i].metadata_index)[2]
            /\ \A i \in 1..Len(fn_out) :
                  fn_out[i].fusion_score = Fused(fn_out[i].metadata_index)
            /\ (fn_in.dense = <<>> /\ fn_in.bm25 = <<>>) => fn_out = <<>>

\* A chunk that occurs twice in the dense list and is ranked by both retrievers is
\* returned after a chunk with a higher fused score, and the result is cut at k.
C16_Witness ==
    /\ fn_pc = "returned"
    /\ fn_in.dense = <<1, 2, 1>>
    /\ fn_in.bm25 = <<3, 2>>
    /\ fn_in.k = 2
    /\ Len(fn_out) = 2
    /\ fn_out[1].metadata_index = 2
    /\ fn_out[2].metadata_index = 1

\* C17: the reranker's output is the retrieved list ordered by rerank score
\* descending and cut to K_RERANK: every returned chunk is a retrieved chunk with
\* its own score, no returned chunk scores lower than an omitted one, and chunks
\* of equal score keep their retrieval order, among the returned ones and between
\* a returned and an omitted one.
C17_RerankIsStableTopK ==
    fn_pc = "returned" =>
        LET returned == {fn_out[i].position : i \in 1..Len(fn_out)}
            omitted == (1..Len(fn_in)) \ returned
        IN  /\ Len(fn_out) = IF Len(fn_in) < K_RERANK THEN Len(fn_in) ELSE K_RERANK
            /\ \A i \in 1..Len(fn_out) :
                  /\ fn_out[i].position \in 1..Len(fn_in)
                  /\ fn_out[i].rerank_score = fn_in[fn_out[i].position]
            /\ \A i, j \in 1..Len(fn_out) :
                  i < j =>
                      \/ fn_out[i].rerank_score > fn_out[j].rerank_score
                      \/ /\ fn_out[i].rerank_score = fn_out[j].rerank_score
                         /\ fn_out[i].position < fn_out[j].position
            /\ \A r \in returned, o \in omitted :
                  \/ fn_in[r] > fn_in[o]
                  \/ fn_in[r] = fn_in[o] /\ r < o

\* Ten chunks are retrieved, eight are returned: the two of the higher score first,
\* then the first six of the lower score in retrieval order.
C17_Witness ==
    /\ fn_pc = "returned"
    /\ fn_in = <<1, 2, 1, 2, 1, 1, 1, 1, 1, 1>>
    /\ Len(fn_out) = K_RERANK
    /\ fn_out[1].position = 2
    /\ fn_out[2].position = 4
    /\ fn_out[3].position = 1
    /\ fn_out[8].position = 8

\* C18: after any sequence of add_turn calls the history holds at most max_turns
\* turns, in append order, and they are exactly the most recent ones: the oldest
\* turn is evicted first.
C18_HistoryIsMostRecentWindow ==
    fn_pc = "memory" =>
        LET n == Len(fn_in.calls)
            kept == Len(fn_out.history)
        IN  /\ kept <= fn_in.max_turns
            /\ kept = IF n < fn_in.max_turns THEN n ELSE fn_in.max_turns
            /\ \A i \in 1..kept : fn_out.history[i] = fn_in.calls[n - kept + i]

\* Three different turns were added to a window of two: the first one is gone.
C18_Witness ==
    /\ fn_pc = "memory"
    /\ fn_in.max_turns = 2
    /\ Len(fn_in.calls) = 3
    /\ fn_in.calls[1] # fn_in.calls[2]
    /\ fn_in.calls[2] # fn_in.calls[3]
    /\ fn_out.history = <<fn_in.calls[2], fn_in.calls[3]>>

\* C19: the patient profile is changed by user turns only and a field that is set is
\* never cleared: an assistant turn leaves the profile as it is, a user turn whose
\* text holds no gender term leaves the gender as it is, a user turn whose text
\* holds no integer between 0 and 120 leaves the age as it is. 'I am 34 years old
\* and male' gives age 34 and gender male; 'actually female' gives gender female
\* and leaves the age.
C19_ProfileUpdates ==
    [][ fn_pc = "memory" =>
          LET call == fn_in'.calls[Len(fn_in'.calls)]
              words == {call.content[i] : i \in 1..Len(call.content)}
              before == fn_out.profile
              after == fn_out'.profile
          IN  /\ call.role = "assistant" => after = before
              /\ before.patient_age # NoAge => after.patient_age # NoAge
              /\ before.patient_gender # "None" => after.patient_gender # "None"
              /\ words \cap {"female", "woman", "Woman", "girl", "male", "man", "boy",
                              "human"} = {}
                    => after.patient_gender = before.patient_gender
              /\ words \cap {"3", "34", "61"} = {}
                    => after.patient_age = before.patient_age
              /\ (call.role = "user" /\ call.content =
                      <<"I", "am", "34", "years", "old", "and", "male">>)
                    => after.patient_age = 34 /\ after.patient_gender = "male"
              /\ (call.role = "user" /\ call.content = <<"actually", "female">>)
                    => /\ after.patient_gender = "female"
                       /\ after.patient_age = before.patient_age ]_vars

\* The two turns of the example were added in that order, an assistant turn between
\* them: the profile is age 34, gender female.
C19_Witness ==
    /\ fn_pc = "memory"
    /\ Len(fn_in.calls) = 3
    /\ fn_in.calls[1] =
          [role |-> "user",
           content |-> <<"I", "am", "34", "years", "old", "and", "male">>]
    /\ fn_in.calls[2].role = "assistant"
    /\ fn_in.calls[3] = [role |-> "user", content |-> <<"actually", "female">>]
    /\ fn_out.profile = [patient_age |-> 34, patient_gender |-> "female"]

\* The candidate and a previous question share at least 75% of the tokens either
\* of them has.
OverlapAtLeast75(cand, prev) ==
    LET c == Range(_normalize_question(cand))
        q == Range(_normalize_question(prev))
    IN  /\ c \cup q # {}
        /\ 4 * Cardinality(c \cap q) >= 3 * Cardinality(c \cup q)

\* The candidate shares no token with any previous question.
DisjointFromAll(cand, previous) ==
    \A p \in 1..Len(previous) :
        Range(_normalize_question(cand)) \cap Range(_normalize_question(previous[p]))
            = {}

\* C20 as stated: the detector flags the candidate whenever it and a previous
\* question have at least 75% token overlap after normalisation or normalise to
\* the same string, and never flags a candidate whose token set is disjoint from
\* every previous question's.
C20_DuplicateDetector ==
    fn_pc = "returned" =>
        /\ (\E p \in 1..Len(fn_in.previous_questions) :
               \/ OverlapAtLeast75(fn_in.candidate, fn_in.previous_questions[p])
               \/ _normalize_question(fn_in.candidate)
                      = _normalize_question(fn_in.previous_questions[p]))
              => fn_out = TRUE
        /\ DisjointFromAll(fn_in.candidate, fn_in.previous_questions)
              => fn_out = FALSE

\* C20, amended: a candidate whose normalised form is empty is never flagged; any
\* other candidate is flagged whenever it and a previous question have at least
\* 75% token overlap or normalise to the same string, and is not flagged when
\* its token set is disjoint from every previous question's.
C20_DuplicateDetectorNonEmpty ==
    fn_pc = "returned" =>
        /\ _normalize_question(fn_in.candidate) = <<>> => fn_out = FALSE
        /\ (/\ _normalize_question(fn_in.candidate) # <<>>
            /\ \E p \in 1..Len(fn_in.previous_questions) :
                  \/ OverlapAtLeast75(fn_in.candidate, fn_in.previous_questions[p])
                  \/ _normalize_question(fn_in.candidate)
                         = _normalize_question(fn_in.previous_questions[p]))
              => fn_out = TRUE
        /\ DisjointFromAll(fn_in.candidate, fn_in.previous_questions)
              => fn_out = FALSE

\* A candidate of three tokens is flagged against a question of four that holds
\* them all: the overlap is exactly 75% and the normalised strings differ.
C20_Witness ==
    /\ fn_pc = "returned"
    /\ fn_in.candidate = <<"fever?", "ear-pain">>
    /\ fn_in.previous_questions = << <<"Fever", "ear-pain", "night">> >>
    /\ fn_out = TRUE

\* C21 as stated: in gathering and uncertain mode the turn ends with exactly one
\* emitted question after at most 3 calls of the generation capability, and when
\* every attempt came back empty or duplicate the emitted question is the fixed
\* one.
C21_OneQuestionWithinThreeCalls ==
    fn_pc = "yielded" =>
        /\ Len(fn_out) = 1
        /\ fn_out[1].kind = "question"
        /\ Len(fn_in.attempts) <= 3
        /\ (\A a \in 1..Len(fn_in.attempts) :
               \/ fn_in.attempts[a] = <<>>
               \/ _is_duplicate_question(fn_in.attempts[a], fn_in.previous_questions))
              => fn_out[1].text = fallback_question

\* C21, amended: the turn ends with exactly one emitted text after at most 3 calls;
\* when a call raised the text is the error message, otherwise it is a question:
\* the first candidate that is neither empty nor a duplicate, or the fixed
\* question when all three candidates were empty or duplicates.
C21_OneTextWithinThreeCalls ==
    fn_pc = "yielded" =>
        LET n == Len(fn_in.attempts)
            Rejected(a) ==
                \/ fn_in.attempts[a] = <<>>
                \/ _is_duplicate_question(fn_in.attempts[a], fn_in.previous_questions)
        IN  /\ Len(fn_out) = 1
            /\ n <= 3
            /\ fn_in.raised <=> fn_out[1].kind = "error"
            /\ ~fn_in.raised =>
                  /\ fn_out[1].kind = "question"
                  /\ \A a \in 1..(n - 1) : Rejected(a)
                  /\ IF Rejected(n)
                     THEN n = 3 /\ fn_out[1].text = fallback_question
                     ELSE fn_out[1].text = fn_in.attempts[n]

\* Three calls came back with duplicates of the question asked before, and the
\* fixed question is emitted.
C21_Witness ==
    /\ fn_pc = "yielded"
    /\ fn_in.previous_questions = << <<"fever?">> >>
    /\ fn_in.attempts = << <<"Fever", "?">>, <<"fever?">>, <<"Fever", "?">> >>
    /\ fn_out = <<[kind |-> "question", text |-> fallback_question]>>

\* C22: a turn abandoned at a suspension point commits nothing: it leaves
\* user_turn_count, the history and every dialogue flag as they were before the
\* turn.
C22_AbandonedTurnCommitsNothing ==
    pc \in {"crashed", "abandoned"} /\ turn_start.taken =>
        /\ history = turn_start.history
        /\ user_turn_count = turn_start.user_turn_count
        /\ diagnosis_complete = turn_start.diagnosis_complete
        /\ waiting_remedies_consent = turn_start.waiting_remedies_consent
        /\ waiting_treatment_risk_profile = turn_start.waiting_treatment_risk_profile
        /\ treatment_risk_profile_collected =
              turn_start.treatment_risk_profile_collected
        /\ last_diagnosis = turn_start.last_diagnosis

\* C23: when the user keeps sending turns that pass the safety gate and retrieval is
\* non-empty, every session eventually reaches diagnosis_complete.
C23_SessionEventuallyCompletes == <>diagnosis_complete

\* C24: every question emitted in a gathering turn is new: the duplicate detector
\* does not find it among the questions emitted earlier in the session, the fixed
\* fallback question included.
C24_EveryQuestionIsNew ==
    fn_pc = "yielded" /\ fn_out[1].kind = "question"
        => ~_is_duplicate_question(fn_out[1].text, fn_in.previous_questions)

\* C25: every chunk list handed to generation, in any mode, is the output of the
\* rerank stage.
C25_GenerationReadsRerankedChunks ==
    pc = "reply" /\ response.kind = "pending" => response.source = "rerank"

\* C26: the lexical index and the metadata are read-only after the build: whatever
\* queries the sessions have put, an unseen term included, the index is the index
\* built from the corpus, the metadata records are the records loaded, and a
\* repeated query has the ranking it had the first time.
C26_IndexIsReadOnly ==
    fn_pc = "retrieved" =>
        /\ fn_in.index = _build_bm25_index(fn_in.corpus)
        /\ fn_in.metadata = fn_in.corpus
        /\ fn_out[1].query = fn_in.first[1].query
               => fn_out[1].ranking = fn_in.first[1].ranking

\* A term no chunk holds is looked up after a query whose two results had their
\* scores set.
C26_Witness ==
    /\ fn_pc = "retrieved"
    /\ fn_in.queries = MaxQueries
    /\ Len(fn_in.first[1].ranking) = 2
    /\ fn_out[1].query.text = <<"kapha">>

\* C27: the lexical scorer returns at most top_k chunk indices, the best first, in
\* non-increasing score and, at equal score, in ascending index; each returned
\* chunk holds a query term and has the source of the filter; an empty query or an
\* empty candidate set gives the empty list.
C27_LexicalRanking ==
    fn_pc = "retrieved" =>
        LET ranking == fn_out[1].ranking
            query == fn_out[1].query
            index == fn_in.index
            score(i) == bm25_score(index, i, query.text)
            matches(i) ==
                /\ \E p \in 1..Len(query.text) :
                       query.text[p] \in Range(fn_in.corpus[i].text)
                /\ query.source_filter # NoFilter
                       => fn_in.corpus[i].source = query.source_filter
            matching == {i \in 1..index.num_docs : matches(i)}
        IN  /\ Len(ranking) = Min(query.top_k, Cardinality(matching))
            /\ IsInjective(ranking)
            /\ Range(ranking) \subseteq matching
            /\ \A i \in matching \ Range(ranking), p \in 1..Len(ranking) :
                   score(i) <= score(ranking[p])
            /\ \A p \in 1..Len(ranking) - 1 :
                   \/ score(ranking[p]) > score(ranking[p + 1])
                   \/ /\ score(ranking[p]) = score(ranking[p + 1])
                      /\ ranking[p] < ranking[p + 1]
            /\ (query.text = <<>> \/ matching = {}) => ranking = <<>>

\* C28: the user-turn count does not pass the minimum threshold without a first
\* differential attempt: run() on the turn whose count equals the threshold enters
\* the differential decision with final_attempt false.
C28_FirstDifferentialAtThreshold ==
    [][ (pc = "route" /\ user_turn_count = MIN_GATHERING_QUESTIONS)
            => (pc' = "differential" /\ final_attempt' = "false") ]_vars

\* C29: the two waiting flags are never both set, and neither is set once the
\* diagnosis is complete; waiting for the consent implies that a diagnosis is
\* stored; a collected risk profile implies that the diagnosis is complete; and
\* diagnosis_complete never returns to false.
C29_FlagsAreConsistent ==
    /\ [](/\ ~(waiting_remedies_consent /\ waiting_treatment_risk_profile)
          /\ diagnosis_complete
                 => ~waiting_remedies_consent /\ ~waiting_treatment_risk_profile
          /\ waiting_remedies_consent => last_diagnosis # None
          /\ treatment_risk_profile_collected => diagnosis_complete)
    /\ [][diagnosis_complete => diagnosis_complete']_vars

\* The session went through the consent and the risk profile: the profile is
\* collected and the diagnosis is complete.
C29_Witness ==
    /\ pc = "done"
    /\ stage = "profiled"
    /\ treatment_risk_profile_collected
    /\ diagnosis_complete
    /\ ~waiting_remedies_consent
    /\ ~waiting_treatment_risk_profile

\* C30: a turn whose self-check has treatment_allowed false does not take the
\* diagnosis branch.
C30_TreatmentNotAllowedNeverDiagnosed ==
    (pc = "reply" /\ response.mode = "diagnosis") => self_check.treatment_allowed

====
